---- MODULE Spec2Model ----
(***************************************************************************)
(* Accent Equalizer: the AccentStreamProcessor of accent_equalizer.py and  *)
(* the two transports of app.py (the socket event 'audio_stream' and the   *)
(* REST endpoint /api/process_chunk) that share one module-level           *)
(* processor.                                                              *)
(*                                                                         *)
(* Time is counted in whole seconds.  A handler invocation is a thread of  *)
(* the web server; its steps are the statements of the code that read or   *)
(* write the shared processor, so that two invocations can interleave      *)
(* between any two of them.                                                *)
(***************************************************************************)
EXTENDS Integers, Sequences, FiniteSets, TLC

VARIABLES
    detected_accents,     \* processor.detected_accents   (accent_equalizer.py:40)
    current_detected,     \* processor.current_detected   (accent_equalizer.py:45)
    last_detection_time,  \* processor.last_detection_time (accent_equalizer.py:46)
    clock,                \* the value time.time() returns
    threads,              \* the handler invocations: position and local variables
    output,               \* what the step just taken handed to its caller, if anything
    received,             \* per session: number of non-empty socket chunks received so far
    emitted,              \* per session: the chunk numbers of the audio_response events, in emission order
    calls,                \* number of process_chunk calls started so far
    reevals               \* the times (current_time) of the re-evaluations, in order

vars == <<detected_accents, current_detected, last_detection_time, clock,
          threads, output, received, emitted, calls, reevals>>

(***************************************************************************)
(* Bounds of the model.                                                    *)
(***************************************************************************)
NumThreads == 2
NumSessions == 2
MaxCalls == 2
MaxTime == 6

Threads == 1..NumThreads
Sessions == 1..NumSessions

(***************************************************************************)
(* Constants of the program.                                               *)
(***************************************************************************)
AccentPool ==
    << "American (South)", "British (Received Pronunciation)", "Indian (General)",
       "Indian (South)", "Indian (North)", "Chinese (Mandarin)", "Japanese",
       "French", "German", "Spanish", "Russian", "Australian" >>

Sentinel == "Analyzing..."
DetectionInterval == 2
LatencyMin == 150
LatencyMax == 450
LatencyBudget == 500
DefaultTarget == "Neutral"

\* time.time() is seconds since the epoch: far more than one detection
\* interval after the initial last_detection_time of 0.
StartTime == DetectionInterval + 1

Range(s) == {s[i] : i \in DOMAIN s}
KnownAccents == Range(AccentPool)

\* random.randint(150, 450): the two ends of the range.
LatencyValues == {LatencyMin, LatencyMax}

(***************************************************************************)
(* Inputs.                                                                 *)
(***************************************************************************)
\* Audio payloads: byte strings, the empty one included.
Chunks == { <<>>, <<82>>, <<82, 73>> }

\* What a client puts in 'target_accent' when it sends the key at all.
ClientTargets == {"British (Received Pronunciation)"}

\* The argument of the 'audio_stream' handler: a dict with either key
\* optional, or a payload that is no dict at all (raw bytes).
NotADict == [raw |-> <<82>>]
SocketDicts ==
    {[audio |-> a, target_accent |-> x] : a \in Chunks, x \in ClientTargets}
    \cup {[audio |-> a] : a \in Chunks}
    \cup {[target_accent |-> x] : x \in ClientTargets}
SocketPayloads == SocketDicts \cup {NotADict}

IsDict(data) == "raw" \notin DOMAIN data

\* An uploaded file (werkzeug FileStorage): its name, its bytes, and whether
\* reading the upload stream succeeds.
Uploads ==
    {[filename |-> "blob", content |-> c, readable |-> TRUE] : c \in Chunks}
    \cup {[filename |-> "", content |-> <<82>>, readable |-> TRUE],
          [filename |-> "blob", content |-> <<82>>, readable |-> FALSE]}
RestRequests ==
    {[audio |-> u, target_accent |-> x] : u \in Uploads, x \in ClientTargets}
    \cup {[audio |-> u] : u \in Uploads}
    \cup {[target_accent |-> x] : x \in ClientTargets}

\* dict.get(key, default) for the 'target_accent' key.
GetTarget(data) ==
    IF "target_accent" \in DOMAIN data THEN data["target_accent"] ELSE DefaultTarget

\* `if audio_chunk:` on data.get('audio'): a missing key gives None, and
\* None and the empty byte string are both false.
SocketAudioTruthy(data) == "audio" \in DOMAIN data /\ data["audio"] # <<>>

\* `if not audio_file:` on request.files.get('audio'): a missing part gives
\* None; a FileStorage is true exactly when its filename is non-empty.
RestFileTruthy(req) == "audio" \in DOMAIN req /\ req["audio"].filename # ""

(***************************************************************************)
(* Pure functions.                                                         *)
(***************************************************************************)
\* base64.b64encode(...).decode('utf-8'): every three bytes become four
\* sextets (indices into the base64 alphabet); a last group of one or two
\* bytes is zero-filled and padded with '=' (written B64Pad).
B64Pad == 64

RECURSIVE B64Encode(_)
B64Encode(bs) ==
    IF Len(bs) = 0 THEN << >>
    ELSE IF Len(bs) = 1 THEN
        LET v == bs[1] * 65536
        IN  << v \div 262144, (v \div 4096) % 64, B64Pad, B64Pad >>
    ELSE IF Len(bs) = 2 THEN
        LET v == bs[1] * 65536 + bs[2] * 256
        IN  << v \div 262144, (v \div 4096) % 64, (v \div 64) % 64, B64Pad >>
    ELSE
        LET v == bs[1] * 65536 + bs[2] * 256 + bs[3]
        IN  << v \div 262144, (v \div 4096) % 64, (v \div 64) % 64, v % 64 >>
            \o B64Encode(SubSeq(bs, 4, Len(bs)))

\* Variants of the definitions below, each with one plausible slip.
ShouldDetectAtInterval(current_time, last) == current_time - last >= DetectionInterval
ShouldDetectSwapped(current_time, last) == last - current_time > DetectionInterval
apply_dsp_whole_samples(audio_bytes, target_accent) ==
    SubSeq(audio_bytes, 1, 2 * (Len(audio_bytes) \div 2))

\* detect_accent's test: `current_time - self.last_detection_time > 2.0`.
ShouldDetect(current_time, last) == current_time - last > DetectionInterval

\* apply_dsp_effects: returns the audio as it came (simulation mode).
apply_dsp_effects(audio_bytes, target_accent) == audio_bytes

\* The dict process_chunk returns.
process_chunk_result(audio_chunk, detected, target_accent, latency) ==
    [ audio           |-> apply_dsp_effects(audio_chunk, target_accent),
      detected_accent |-> detected,
      target_accent   |-> target_accent,
      status          |-> "processed",
      latency_ms      |-> latency ]

\* The JSON body of the REST endpoint's success response.
rest_success_body(result) ==
    [ audio_b64       |-> B64Encode(result.audio),
      detected_accent |-> result.detected_accent,
      target_accent   |-> result.target_accent,
      status          |-> "processed" ]

(***************************************************************************)
(* Handler invocations.                                                    *)
(***************************************************************************)
NoResult == [status |-> "none"]
NoResponse == [kind |-> "none", code |-> 0, body |-> [none |-> TRUE]]

HttpResponse(code, body) == [kind |-> "http", code |-> code, body |-> body]
EmitResponse(event, body) == [kind |-> event, code |-> 0, body |-> body]

IdleThread ==
    [ pc            |-> "idle",
      kind          |-> "none",
      session       |-> 0,
      seq           |-> 0,
      audio_chunk   |-> << >>,
      target_accent |-> DefaultTarget,
      current_time  |-> 0,
      result        |-> NoResult ]

\* The end of a handler invocation as its client sees it: the bytes and the
\* target it sent, whether the handler raised, and the response it got.
Outcome(kind, audio_in, target, raised, response) ==
    [ kind          |-> kind,
      audio_in      |-> audio_in,
      target_accent |-> target,
      raised        |-> raised,
      response      |-> response ]

NoOutput == Outcome("none", << >>, DefaultTarget, FALSE, NoResponse)

Free(t) == threads[t].pc = "idle"
Quiescent == \A u \in Threads : Free(u)

\* The worker that takes the next event or request: the idle one of lowest
\* number (which idle worker runs a handler makes no difference to it).
NextWorker(t) == Free(t) /\ \A u \in Threads : u < t => ~Free(u)

\* The bytes an event or a request carries (none: the empty byte string).
SocketAudio(data) == IF "audio" \in DOMAIN data THEN data["audio"] ELSE << >>
RestAudio(req) == IF "audio" \in DOMAIN req THEN req["audio"].content ELSE << >>

\* The processor a session's chunks are handed to: app.py builds one
\* processor at import time and every handler uses it.
DetectionState(s) == <<current_detected, last_detection_time>>

Init ==
    /\ detected_accents = AccentPool
    /\ current_detected = Sentinel
    /\ last_detection_time = 0
    /\ clock = StartTime
    /\ threads = [t \in Threads |-> IdleThread]
    /\ output = NoOutput
    /\ received = [s \in Sessions |-> 0]
    /\ emitted = [s \in Sessions |-> << >>]
    /\ calls = 0
    /\ reevals = << >>

\* Time passes.
Tick ==
    /\ clock < MaxTime
    /\ clock' = clock + 1
    /\ output' = NoOutput
    /\ UNCHANGED <<detected_accents, current_detected, last_detection_time,
                   threads, received, emitted, calls, reevals>>

\* handle_audio_stream, lines 72-75: the event arrives and the handler
\* takes the chunk out of it.  A payload that is no dict has no .get: the
\* handler raises and emits nothing.  A missing or empty chunk ends the
\* handler without a response.
HandleAudioStream(t, s, data) ==
    /\ NextWorker(t)
    /\ IF ~IsDict(data) THEN
           /\ output' = Outcome("socket", << >>, DefaultTarget, TRUE, NoResponse)
           /\ UNCHANGED <<threads, received, calls>>
       ELSE IF SocketAudioTruthy(data) THEN
           /\ calls < MaxCalls
           /\ calls' = calls + 1
           /\ received' = [received EXCEPT ![s] = @ + 1]
           /\ threads' = [threads EXCEPT ![t] =
                  [IdleThread EXCEPT !.pc = "time", !.kind = "socket", !.session = s,
                                     !.seq = received[s] + 1,
                                     !.audio_chunk = data["audio"],
                                     !.target_accent = GetTarget(data)]]
           /\ output' = NoOutput
       ELSE
           /\ output' = Outcome("socket", SocketAudio(data), GetTarget(data),
                                FALSE, NoResponse)
           /\ UNCHANGED <<threads, received, calls>>
    /\ UNCHANGED <<detected_accents, current_detected, last_detection_time,
                   clock, emitted, reevals>>

\* process_chunk_rest, lines 28-39 and 55-56: the request arrives.  No
\* (true) file part: 400.  A read of the upload that raises: the except
\* clause answers 500.  Otherwise the bytes go to process_chunk.
ProcessChunkRest(t, s, req) ==
    /\ NextWorker(t)
    /\ IF ~RestFileTruthy(req) THEN
           /\ output' = Outcome("rest", RestAudio(req), GetTarget(req), FALSE,
                                HttpResponse(400, [error |-> "No audio provided"]))
           /\ UNCHANGED <<threads, calls>>
       ELSE IF ~req["audio"].readable THEN
           /\ output' = Outcome("rest", RestAudio(req), GetTarget(req), TRUE,
                                HttpResponse(500, [error |-> "read failed"]))
           /\ UNCHANGED <<threads, calls>>
       ELSE
           /\ calls < MaxCalls
           /\ calls' = calls + 1
           /\ threads' = [threads EXCEPT ![t] =
                  [IdleThread EXCEPT !.pc = "time", !.kind = "rest", !.session = s,
                                     !.audio_chunk = req["audio"].content,
                                     !.target_accent = GetTarget(req)]]
           /\ output' = NoOutput
    /\ UNCHANGED <<detected_accents, current_detected, last_detection_time,
                   clock, received, emitted, reevals>>

\* detect_accent, line 55: current_time = time.time()
ReadTime(t) ==
    /\ threads[t].pc = "time"
    /\ threads' = [threads EXCEPT ![t].current_time = clock, ![t].pc = "check"]
    /\ output' = NoOutput
    /\ UNCHANGED <<detected_accents, current_detected, last_detection_time,
                   clock, received, emitted, calls, reevals>>

\* detect_accent, line 56: the test against self.last_detection_time
CheckInterval(t) ==
    /\ threads[t].pc = "check"
    /\ threads' = [threads EXCEPT ![t].pc =
           IF ShouldDetect(threads[t].current_time, last_detection_time)
           THEN "choose" ELSE "ret"]
    /\ output' = NoOutput
    /\ UNCHANGED <<detected_accents, current_detected, last_detection_time,
                   clock, received, emitted, calls, reevals>>

\* detect_accent, line 59: self.current_detected = random.choice(...)
ChooseAccent(t) ==
    /\ threads[t].pc = "choose"
    /\ \E i \in DOMAIN detected_accents : current_detected' = detected_accents[i]
    /\ reevals' = Append(reevals, threads[t].current_time)
    /\ threads' = [threads EXCEPT ![t].pc = "stamp"]
    /\ output' = NoOutput
    /\ UNCHANGED <<detected_accents, last_detection_time, clock, received, emitted, calls>>

\* detect_accent, line 60: self.last_detection_time = current_time
StampTime(t) ==
    /\ threads[t].pc = "stamp"
    /\ last_detection_time' = threads[t].current_time
    /\ threads' = [threads EXCEPT ![t].pc = "ret"]
    /\ output' = NoOutput
    /\ UNCHANGED <<detected_accents, current_detected, clock, received, emitted,
                   calls, reevals>>

\* detect_accent, line 62 (return self.current_detected) and the rest of
\* process_chunk, lines 99-113, which touches no shared state.
ReturnResult(t) ==
    /\ threads[t].pc = "ret"
    /\ \E latency \in LatencyValues :
           threads' = [threads EXCEPT
               ![t].result = process_chunk_result(threads[t].audio_chunk, current_detected,
                                                  threads[t].target_accent, latency),
               ![t].pc = "respond"]
    /\ output' = NoOutput
    /\ UNCHANGED <<detected_accents, current_detected, last_detection_time,
                   clock, received, emitted, calls, reevals>>

\* handle_audio_stream, line 80: emit('audio_response', result)
EmitAudioResponse(t) ==
    /\ threads[t].pc = "respond"
    /\ threads[t].kind = "socket"
    /\ output' = Outcome("socket", threads[t].audio_chunk, threads[t].target_accent, FALSE,
                         EmitResponse("audio_response", threads[t].result))
    /\ emitted' = [emitted EXCEPT ![threads[t].session] = Append(@, threads[t].seq)]
    /\ threads' = [threads EXCEPT ![t] = IdleThread]
    /\ UNCHANGED <<detected_accents, current_detected, last_detection_time,
                   clock, received, calls, reevals>>

\* process_chunk_rest, lines 46-53: the JSON success response
ReturnRestResponse(t) ==
    /\ threads[t].pc = "respond"
    /\ threads[t].kind = "rest"
    /\ output' = Outcome("rest", threads[t].audio_chunk, threads[t].target_accent, FALSE,
                         HttpResponse(200, rest_success_body(threads[t].result)))
    /\ threads' = [threads EXCEPT ![t] = IdleThread]
    /\ UNCHANGED <<detected_accents, current_detected, last_detection_time,
                   clock, received, emitted, calls, reevals>>

Arrive(t, payloads, requests) ==
    \/ \E s \in Sessions, data \in payloads : HandleAudioStream(t, s, data)
    \/ \E s \in Sessions, req \in requests : ProcessChunkRest(t, s, req)

Step(t) ==
    \/ ReadTime(t)
    \/ CheckInterval(t)
    \/ ChooseAccent(t)
    \/ StampTime(t)
    \/ ReturnResult(t)
    \/ EmitAudioResponse(t)
    \/ ReturnRestResponse(t)

\* One handler invocation at a time: the calls on the processor form a sequence.
Next ==
    \/ Tick
    \/ \E t \in Threads : Quiescent /\ Arrive(t, SocketPayloads, RestRequests)
    \/ \E t \in Threads : Step(t)

Spec == Init /\ [][Next]_vars

\* Handler invocations run as threads of the server and interleave freely.
\* The events and requests that arrive while others are in flight are well-formed ones.
ConcPayloads == {[audio |-> <<82, 73>>]}
ConcRequests == {[audio |-> [filename |-> "blob", content |-> <<82>>, readable |-> TRUE]]}

NextConc ==
    \/ Tick
    \/ \E t \in Threads : Arrive(t, ConcPayloads, ConcRequests)
    \/ \E t \in Threads : Step(t)

SpecConc == Init /\ [][NextConc]_vars

(***************************************************************************)
(* Properties.                                                             *)
(***************************************************************************)
InCall(t) == ~Free(t)
HasResult(t) == threads[t].pc = "respond"

\* A per-chunk output handed to a client: an audio_response event or a
\* 200 response of the REST endpoint.
IsChunkOutput(o) ==
    \/ o.response.kind = "audio_response"
    \/ o.response.kind = "http" /\ o.response.code = 200

\* Any two re-evaluations are more than one detection interval apart.
ReevalsSpaced ==
    \A i, j \in DOMAIN reevals :
        i < j => reevals[j] - reevals[i] > DetectionInterval

\* C1: with one call at a time, the label is re-evaluated at most once per
\* detection interval: any two re-evaluations are more than 2 seconds
\* apart, and a call made within 2 seconds of the last re-evaluation
\* returns the label that re-evaluation chose (the processor's current one).
C1_DetectionRateLimited ==
    /\ ReevalsSpaced
    /\ \A t \in Threads :
           ( /\ HasResult(t)
             /\ reevals # << >>
             /\ threads[t].current_time - reevals[Len(reevals)] <= DetectionInterval )
           => threads[t].result.detected_accent = current_detected

\* A call that came within the interval after a re-evaluation, did not
\* re-evaluate, and has its result.
C1_Witness ==
    \E t \in Threads :
        /\ HasResult(t)
        /\ Len(reevals) = 1
        /\ threads[t].current_time > reevals[1]
        /\ threads[t].current_time - reevals[1] <= DetectionInterval
        /\ calls = 2

\* C2: the result of process_chunk for a non-empty chunk never carries the
\* sentinel: its detected_accent is one of the labels of the pool, its
\* status is "processed" and its latency_ms is below 500; the same holds of
\* the audio_response event that carries the result.
C2_NeverReportsSentinel ==
    /\ \A t \in Threads :
           (HasResult(t) /\ threads[t].audio_chunk # << >>) =>
               /\ threads[t].result.detected_accent \in Range(detected_accents)
               /\ threads[t].result.detected_accent # Sentinel
               /\ threads[t].result.status = "processed"
               /\ threads[t].result.latency_ms < LatencyBudget
    /\ (output.response.kind = "audio_response" /\ output.audio_in # << >>) =>
           /\ output.response.body.detected_accent \in KnownAccents
           /\ output.response.body.status = "processed"
           /\ output.response.body.latency_ms < LatencyBudget

\* The first call on a fresh processor has its result.
C2_Witness ==
    \E t \in Threads :
        /\ HasResult(t)
        /\ threads[t].audio_chunk # << >>
        /\ calls = 1
        /\ Len(reevals) = 1

\* C3: a chunk whose target accent is none of the known labels comes back
\* with status "fallback" and its audio unchanged.
C3_FallbackOnUnknownTarget ==
    (IsChunkOutput(output) /\ output.target_accent \notin KnownAccents) =>
        /\ output.response.body.status = "fallback"
        /\ IF output.kind = "socket"
           THEN output.response.body.audio = output.audio_in
           ELSE output.response.body.audio_b64 = B64Encode(output.audio_in)

\* C4: a step of a handler that runs for one session leaves the detection
\* state every other session observes as it was.
C4_SessionsIndependent ==
    [][ \A t \in Threads :
            (InCall(t) /\ threads'[t] # threads[t]) =>
                \A s \in Sessions \ {threads[t].session} :
                    DetectionState(s)' = DetectionState(s) ]_vars

\* C5: the audio_response events of a session come in the order its chunks
\* were received, one per chunk: the k-th event answers the k-th chunk, and
\* once no handler is running every chunk has been answered.
C5_ResponsesInOrder ==
    \A s \in Sessions :
        /\ \A i \in DOMAIN emitted[s] : emitted[s][i] = i
        /\ Quiescent => Len(emitted[s]) = received[s]

\* C6: a handler that raised has answered its chunk with an error outcome:
\* the REST endpoint with status 500 and an 'error' field, the socket
\* handler with an audio_response of status "error".
C6_ErrorsAnsweredPerChunk ==
    output.raised =>
        IF output.kind = "rest"
        THEN /\ output.response.kind = "http"
             /\ output.response.code = 500
             /\ "error" \in DOMAIN output.response.body
        ELSE /\ output.response.kind = "audio_response"
             /\ output.response.body.status = "error"

\* C7: every per-chunk output, on either transport, is a complete
\* ProcessedChunk record: audio, detected accent, the target accent that
\* came with the chunk, a status among processed, fallback and error, and a
\* latency in milliseconds.
C7_CompleteProcessedChunk ==
    IsChunkOutput(output) =>
        LET body == output.response.body IN
        /\ ("audio" \in DOMAIN body \/ "audio_b64" \in DOMAIN body)
        /\ "detected_accent" \in DOMAIN body
        /\ "target_accent" \in DOMAIN body
        /\ body.target_accent = output.target_accent
        /\ "status" \in DOMAIN body
        /\ body.status \in {"processed", "fallback", "error"}
        /\ "latency_ms" \in DOMAIN body

\* C8: an empty or missing chunk is not processed: it never reaches
\* process_chunk (so the detection state stays as it was), the socket
\* handler emits nothing for it and the REST endpoint answers 400
\* 'No audio provided'.
C8_EmptyChunkIgnored ==
    /\ \A t \in Threads : InCall(t) => threads[t].audio_chunk # << >>
    /\ (output.kind = "socket" /\ output.audio_in = << >>) =>
           output.response = NoResponse
    /\ (output.kind = "rest" /\ output.audio_in = << >>) =>
           output.response = HttpResponse(400, [error |-> "No audio provided"])

\* C9: process_chunk passes the audio through: the result's audio is the
\* chunk it was given and its target_accent the argument, for known and
\* unknown targets, and the accent pool of the processor is never changed.
C9_PassThrough ==
    /\ detected_accents = AccentPool
    /\ \A t \in Threads :
           HasResult(t) =>
               /\ threads[t].result.audio = threads[t].audio_chunk
               /\ threads[t].result.target_accent = threads[t].target_accent
    /\ output.response.kind = "audio_response" =>
           /\ output.response.body.audio = output.audio_in
           /\ output.response.body.target_accent = output.target_accent

\* A result for a chunk of an odd number of bytes and an unknown target.
C9_Witness ==
    \E t \in Threads :
        /\ HasResult(t)
        /\ threads[t].audio_chunk = <<82>>
        /\ threads[t].target_accent \notin KnownAccents

\* The parts of C10.
LastDetectionTimeMonotone ==
    [][last_detection_time' >= last_detection_time]_vars
OneReevalPerInterval == [][ReevalsSpaced']_vars

\* No invocation is about to read the detection state (line 56 reads
\* last_detection_time, line 62 reads current_detected) while another has
\* written the new label (line 59) and not yet its time (line 60): for
\* every other invocation the two change in one step.
NoTornUpdate ==
    \A t, u \in Threads :
        (t # u /\ threads[u].pc = "stamp") => threads[t].pc \notin {"check", "ret"}

\* C10: under any interleaving of handler invocations detect_accent acts
\* atomically: last_detection_time never decreases, current_detected
\* changes only in a step that also sets last_detection_time (no other
\* invocation meets the label changed and the time not), and no two
\* re-evaluations fall within one detection interval.
C10_DetectAtomic ==
    [][ /\ last_detection_time' >= last_detection_time
        /\ NoTornUpdate'
        /\ ReevalsSpaced' ]_vars

====
